---- MODULE Spec2Model ----
(***************************************************************************)
(* Model of odl/tomo/backends/astra_setup.py: the translation of ODL       *)
(* volume grids and acquisition geometries into ASTRA descriptors, data    *)
(* handles, projectors and algorithms.                                     *)
(*                                                                         *)
(* One behaviour is one caller: Init draws the arguments the caller holds  *)
(* (args), the detected ASTRA version and a fresh geometry cache; every    *)
(* action is one whole call of one function of the module on those         *)
(* arguments.  Python's 0-based x[i] is written Idx(x, i).                 *)
(*                                                                         *)
(* SpecRace is the other way of running astra_projection_geometry: two     *)
(* threads call it on one geometry, and a step is one stretch of the       *)
(* function between two accesses of the geometry's cache.                  *)
(***************************************************************************)
EXTENDS Integers, Sequences, FiniteSets, TLC

VARIABLES
    ASTRA_VERSION,          \* version triple of the imported astra package
    args,                   \* the arguments the caller passes (args.fn: callee)
    implementation_cache,   \* geometry.implementation_cache: name -> proj_geom
    heap,                   \* host memory: buffer id -> contents
    astra_objects,          \* backend object store; a handle is an index in it
    calls,                  \* collaborator calls issued by the latest call
    retval,                 \* outcome of the latest call (value or exception)
    ncalls,                 \* number of calls the caller has made so far
    threads                 \* concurrent callers: position, locals, outcome

vars == <<ASTRA_VERSION, args, implementation_cache, heap, astra_objects,
          calls, retval, ncalls, threads>>

----------------------------------------------------------------------------
(* Bounds of the model. *)

MaxCalls == 2       \* calls one caller makes
MaxShape == 2       \* cells per axis of a volume grid
MaxAngles == 2      \* angles of an acquisition geometry

----------------------------------------------------------------------------
(* Python values. *)

None == <<>>
Some(x) == <<x>>
Idx(x, i) == x[i + 1]
EmptyDict == [k \in {} |-> None]

Return(v) == [ok |-> TRUE, exc |-> "", kind |-> "", value |-> v]
Raise(e, k) == [ok |-> FALSE, exc |-> e, kind |-> k, value |-> None]
NotCalled == [ok |-> FALSE, exc |-> "", kind |-> "not called", value |-> None]

Call(f, a) == [fn |-> f, args |-> a]
Outcome(r, c) == [result |-> r, calls |-> c]

----------------------------------------------------------------------------
(* Capability matrix and version test. *)

NoVersion == [never |-> TRUE, anyOf |-> {}]
Requires(constraints) == [never |-> FALSE, anyOf |-> {constraints}]
AtLeast(v) == [rel |-> ">=", ver |-> v]

\* Faulty variant: anisotropic 2D voxels taken as supported from 1.8 on.
ASTRA_FEATURES_aniso2d_1_8 ==
    [anisotropic_voxels_2d |-> Requires({AtLeast(<<1, 8, 0>>)}),
     anisotropic_voxels_3d |-> Requires({AtLeast(<<1, 8, 0>>)}),
     parallel2d_vec_geometry |-> NoVersion,
     cone2d_density_weighting |-> NoVersion,
     cone3d_hacky_density_weighting |-> Requires({AtLeast(<<1, 8, 0>>)}),
     cone3d_density_weighting |-> NoVersion,
     par3d_det_mid_pt_perp_to_axis |-> Requires({AtLeast(<<1, 7, 2>>)}),
     gpulink |-> NoVersion]

\* Faulty variant: the cone weighting granted from release 1.7.2 on.
ASTRA_FEATURES_hacky_weighting_1_7_2 ==
    [anisotropic_voxels_2d |-> NoVersion,
     anisotropic_voxels_3d |-> Requires({AtLeast(<<1, 8, 0>>)}),
     parallel2d_vec_geometry |-> NoVersion,
     cone2d_density_weighting |-> NoVersion,
     cone3d_hacky_density_weighting |-> Requires({AtLeast(<<1, 7, 2>>)}),
     cone3d_density_weighting |-> NoVersion,
     par3d_det_mid_pt_perp_to_axis |-> Requires({AtLeast(<<1, 7, 2>>)}),
     gpulink |-> NoVersion]

\* ASTRA_FEATURES: None is NoVersion, a requirement string is Requires.
ASTRA_FEATURES ==
    [anisotropic_voxels_2d |-> NoVersion,
     anisotropic_voxels_3d |-> Requires({AtLeast(<<1, 8, 0>>)}),
     parallel2d_vec_geometry |-> NoVersion,
     cone2d_density_weighting |-> NoVersion,
     cone3d_hacky_density_weighting |-> Requires({AtLeast(<<1, 8, 0>>)}),
     cone3d_density_weighting |-> NoVersion,
     par3d_det_mid_pt_perp_to_axis |-> Requires({AtLeast(<<1, 7, 2>>)}),
     gpulink |-> NoVersion]

\* parse_version order on release triples (1.8 parses equal to 1.8.0).
VersionLess(a, b) ==
    \/ a[1] < b[1]
    \/ a[1] = b[1] /\ a[2] < b[2]
    \/ a[1] = b[1] /\ a[2] = b[2] /\ a[3] < b[3]

Satisfies(version, c) ==
    CASE c.rel = ">=" -> ~VersionLess(version, c.ver)
      [] c.rel = "<=" -> ~VersionLess(c.ver, version)
      [] c.rel = "==" -> version = c.ver
      [] OTHER -> FALSE

\* odl.util.utility.pkg_supports, for a feature of the table.
pkg_supports(feature, version, table) ==
    /\ ~table[feature].never
    /\ \E alt \in table[feature].anyOf : \A c \in alt : Satisfies(version, c)

astra_supports(version, feature) == pkg_supports(feature, version, ASTRA_FEATURES)

\* The module refuses to load with ASTRA older than 1.7.
Versions == {<<1, 7, 0>>, <<1, 7, 2>>, <<1, 8, 0>>, <<2, 0, 0>>}

----------------------------------------------------------------------------
(* Volume geometry. *)

\* astra.create_vol_geom, called with 6 (2D) or 9 (3D) positional arguments.
create_vol_geom(a) ==
    IF Len(a) = 6
    THEN [GridRowCount |-> a[1], GridColCount |-> a[2],
          WindowMinX |-> a[3], WindowMaxX |-> a[4],
          WindowMinY |-> a[5], WindowMaxY |-> a[6]]
    ELSE [GridRowCount |-> a[1], GridColCount |-> a[2], GridSliceCount |-> a[3],
          WindowMinX |-> a[4], WindowMaxX |-> a[5],
          WindowMinY |-> a[6], WindowMaxY |-> a[7],
          WindowMinZ |-> a[8], WindowMaxZ |-> a[9]]

\* partition.cell_sides and partition.has_isotropic_cells of a uniform grid.
cell_sides(p) == [i \in 1..Len(p.shape) |-> (p.max_pt[i] - p.min_pt[i]) \div p.shape[i]]

has_isotropic_cells(p) ==
    \A i, j \in 1..Len(p.shape) : cell_sides(p)[i] = cell_sides(p)[j]

\* Faulty variant: the two cell counts passed in grid order.
vol_geom_args_2d_unswapped(vol_shp, vol_min, vol_max) ==
    <<Idx(vol_shp, 0), Idx(vol_shp, 1),
      Idx(vol_min, 0), Idx(vol_max, 0),
      Idx(vol_min, 1), Idx(vol_max, 1)>>

\* Positional arguments of the 2D create_vol_geom call.
vol_geom_args_2d(vol_shp, vol_min, vol_max) ==
    <<Idx(vol_shp, 1), Idx(vol_shp, 0),
      Idx(vol_min, 0), Idx(vol_max, 0),
      Idx(vol_min, 1), Idx(vol_max, 1)>>

\* Faulty variant: the window passed in grid order (x, y, z).
vol_geom_args_3d_xyz_window(vol_shp, vol_min, vol_max) ==
    <<Idx(vol_shp, 1), Idx(vol_shp, 2), Idx(vol_shp, 0),
      Idx(vol_min, 0), Idx(vol_max, 0),
      Idx(vol_min, 1), Idx(vol_max, 1),
      Idx(vol_min, 2), Idx(vol_max, 2)>>

\* Positional arguments of the 3D create_vol_geom call.
vol_geom_args_3d(vol_shp, vol_min, vol_max) ==
    <<Idx(vol_shp, 1), Idx(vol_shp, 2), Idx(vol_shp, 0),
      Idx(vol_min, 2), Idx(vol_max, 2),
      Idx(vol_min, 1), Idx(vol_max, 1),
      Idx(vol_min, 0), Idx(vol_max, 0)>>

astra_volume_geometry(version, discr_reco) ==
    IF ~discr_reco.is_DiscreteLp
    THEN Outcome(Raise("TypeError", "NotDiscreteLp"), <<>>)
    ELSE IF ~discr_reco.is_uniform
    THEN Outcome(Raise("ValueError", "NonUniformGrid"), <<>>)
    ELSE
    LET vol_shp == discr_reco.partition.shape
        vol_min == discr_reco.partition.min_pt
        vol_max == discr_reco.partition.max_pt
    IN  IF discr_reco.ndim = 2
        THEN IF /\ ~has_isotropic_cells(discr_reco.partition)
                /\ ~astra_supports(version, "anisotropic_voxels_2d")
             THEN Outcome(Raise("NotImplementedError", "AnisotropicVoxelUnsupported"), <<>>)
             ELSE LET a == vol_geom_args_2d(vol_shp, vol_min, vol_max)
                  IN  Outcome(Return(create_vol_geom(a)),
                              <<Call("astra.create_vol_geom", a)>>)
        ELSE IF discr_reco.ndim = 3
        THEN IF /\ ~has_isotropic_cells(discr_reco.partition)
                /\ ~astra_supports(version, "anisotropic_voxels_3d")
             THEN Outcome(Raise("NotImplementedError", "AnisotropicVoxelUnsupported"), <<>>)
             ELSE LET a == vol_geom_args_3d(vol_shp, vol_min, vol_max)
                  IN  Outcome(Return(create_vol_geom(a)),
                              <<Call("astra.create_vol_geom", a)>>)
        ELSE Outcome(Raise("ValueError", "UnsupportedDimension"), <<>>)

\* Uniform partitions with n axes: per axis a cell count and a cell side; the
\* lower corner is the origin or has a different coordinate on every axis.
Partitions(n) ==
    {[shape |-> s, min_pt |-> lo,
      max_pt |-> [i \in 1..n |-> lo[i] + s[i] * c[i]]] :
        s \in [1..n -> 1..MaxShape],
        lo \in {[i \in 1..n |-> 0], [i \in 1..n |-> 0 - i]},
        c \in [1..n -> {1, 2}]}

GridDims == {1, 2, 3, 4}

DiscreteLps ==
    UNION {{[is_DiscreteLp |-> TRUE, is_uniform |-> TRUE, ndim |-> n,
             partition |-> p] : p \in Partitions(n)} : n \in GridDims}

\* Arguments the type and uniformity checks reject.
BadVolumeArgs ==
    {[is_DiscreteLp |-> d, is_uniform |-> u, ndim |-> 2,
      partition |-> [shape |-> <<1, 2>>, min_pt |-> <<0, 0>>, max_pt |-> <<1, 2>>]] :
        d \in BOOLEAN, u \in {FALSE}}

VolumeArgs ==
    {[fn |-> "astra_volume_geometry", discr_reco |-> g] :
        g \in DiscreteLps \cup BadVolumeArgs}

InitVolume ==
    /\ ASTRA_VERSION \in Versions
    /\ args \in VolumeArgs
    /\ implementation_cache = EmptyDict
    /\ heap = <<>>
    /\ astra_objects = <<>>
    /\ calls = <<>>
    /\ retval = NotCalled
    /\ ncalls = 0
    /\ threads = <<>>

CallVolumeGeometry ==
    /\ args.fn = "astra_volume_geometry"
    /\ ncalls < MaxCalls
    /\ LET out == astra_volume_geometry(ASTRA_VERSION, args.discr_reco)
       IN  /\ retval' = out.result
           /\ calls' = out.calls
    /\ ncalls' = ncalls + 1
    /\ UNCHANGED <<ASTRA_VERSION, args, implementation_cache, heap, astra_objects,
                   threads>>

----------------------------------------------------------------------------
(* Acquisition geometry, as this module queries it.  The geometric queries *)
(* are left uninterpreted: component k of query q at an angle is a number  *)
(* that names (q, angle, k).                                               *)

Component(q, angle, k) == 100 * q + 10 * angle + k

src_position(geometry, angle) ==
    [k \in 1..geometry.ndim |-> Component(1, angle, k)]

det_point_position(geometry, angle, mid_pt) ==
    [k \in 1..geometry.ndim |-> Component(2, angle, k)]

det_axis(geometry, angle) ==
    [k \in 1..geometry.ndim |-> Component(3, angle, k)]

det_axes(geometry, angle) ==
    <<[k \in 1..geometry.ndim |-> Component(3, angle, k)],
      [k \in 1..geometry.ndim |-> Component(4, angle, k)]>>

det_to_src(geometry, angle, mid_pt) ==
    [k \in 1..geometry.ndim |-> Component(5, angle, k)]

Scale(v, c) == [k \in 1..Len(v) |-> v[k] * c]
Negate(v) == [k \in 1..Len(v) |-> 0 - v[k]]

\* Faulty variant: the rows taken in reverse order as well.
TakeColumns_rows_reversed(vectors, newind) ==
    [r \in 1..Len(vectors) |->
        [j \in 1..Len(newind) |-> Idx(vectors[Len(vectors) + 1 - r], newind[j])]]

\* vectors[:, newind]: column j of the result is column newind[j] of the rows.
TakeColumns(vectors, newind) ==
    [r \in 1..Len(vectors) |-> [j \in 1..Len(newind) |-> Idx(vectors[r], newind[j])]]

\* Faulty variant: the last triple left in (x, y, z) order.
newind_last_triple_kept == <<2, 1, 0, 5, 4, 3, 8, 7, 6, 9, 10, 11>>

newind == <<2, 1, 0, 5, 4, 3, 8, 7, 6, 11, 10, 9>>

astra_conebeam_3d_geom_to_vec(geometry) ==
    LET angles == geometry.angles
        mid_pt == geometry.det_params_mid_pt
        px_sizes == geometry.det_partition.cell_sides
        vectors == [ang_idx \in 1..Len(angles) |->
                      src_position(geometry, angles[ang_idx])
                      \o det_point_position(geometry, angles[ang_idx], mid_pt)
                      \o Scale(Idx(det_axes(geometry, angles[ang_idx]), 0), Idx(px_sizes, 0))
                      \o Scale(Idx(det_axes(geometry, angles[ang_idx]), 1), Idx(px_sizes, 1))]
    IN  TakeColumns(vectors, newind)

astra_conebeam_2d_geom_to_vec(geometry) ==
    LET angles == geometry.angles
        mid_pt == geometry.det_params_mid_pt
        px_size == Idx(geometry.det_partition.cell_sides, 0)
    IN  [ang_idx \in 1..Len(angles) |->
            src_position(geometry, angles[ang_idx])
            \o det_point_position(geometry, angles[ang_idx], mid_pt)
            \o Scale(det_axis(geometry, angles[ang_idx]), px_size)]

astra_parallel_3d_geom_to_vec(geometry) ==
    LET angles == geometry.angles
        mid_pt == geometry.det_params_mid_pt
        px_sizes == geometry.det_partition.cell_sides
        vectors == [ang_idx \in 1..Len(angles) |->
                      Negate(det_to_src(geometry, angles[ang_idx], mid_pt))
                      \o det_point_position(geometry, angles[ang_idx], mid_pt)
                      \o Scale(Idx(det_axes(geometry, angles[ang_idx]), 0), Idx(px_sizes, 0))
                      \o Scale(Idx(det_axes(geometry, angles[ang_idx]), 1), Idx(px_sizes, 1))]
    IN  TakeColumns(vectors, newind)

\* astra.create_proj_geom(type, ...) for the four types this module creates.
create_proj_geom(type, a) ==
    CASE type = "parallel" ->
            [type |-> type, DetectorWidth |-> a[1], DetectorCount |-> a[2],
             ProjectionAngles |-> a[3]]
      [] type = "fanflat_vec" ->
            [type |-> type, DetectorCount |-> a[1], Vectors |-> a[2]]
      [] OTHER ->
            [type |-> type, DetectorRowCount |-> a[1], DetectorColCount |-> a[2],
             Vectors |-> a[3]]

\* Faulty variant: an existing key keeps its value, as d.setdefault(key, v).
DictSet_setdefault(d, key, v) ==
    [k \in DOMAIN d \cup {key} |-> IF k \in DOMAIN d THEN d[k] ELSE v]

\* d[key] = v
DictSet(d, key, v) ==
    [k \in DOMAIN d \cup {key} |-> IF k = key THEN v ELSE d[k]]

ProjOutcome(r, c, cache) == [result |-> r, calls |-> c, cache |-> cache]

BuiltOutcome(r, c) == [result |-> r, calls |-> c]

\* proj_geom = astra.create_proj_geom(type, ...), after the builder calls.
Created(type, a, builder) ==
    BuiltOutcome(Return(create_proj_geom(type, a)),
                 builder \o <<Call("astra.create_proj_geom", <<type>> \o a)>>)

\* The descriptor saved for later, unless the cache has one.
cache_store(cache, proj_geom) ==
    IF "astra" \notin DOMAIN cache
    THEN DictSet(cache, "astra", proj_geom)
    ELSE cache

\* Faulty variant: the beam class is not tested.
IsParallel_any_beam(geometry) == TRUE

\* isinstance(geometry, ParallelBeamGeometry)
IsParallel(geometry) == geometry.beam = "parallel"

\* Faulty variant: every beam that is not parallel taken as divergent.
IsDivergent_not_parallel(geometry) == geometry.beam # "parallel"

\* isinstance(geometry, DivergentBeamGeometry)
IsDivergent(geometry) == geometry.beam = "divergent"

\* Faulty variant: the cache is never consulted.
cache_lookup_never_hits(cache) == None

\* The cache shortcut: the stored descriptor, None when there is none.
cache_lookup(cache) ==
    IF "astra" \in DOMAIN cache THEN Some(cache["astra"]) ELSE None

\* The function between the cache shortcut and the saving of the result:
\* the uniformity test and the dispatch that computes proj_geom.
compute_proj_geom(geometry) ==
    IF ~geometry.det_partition.is_uniform
    THEN BuiltOutcome(Raise("ValueError", "NonUniformDetector"), <<>>)
    ELSE IF IsParallel(geometry) /\ geometry.detector_is_flat /\ geometry.ndim = 2
    THEN LET det_width == Idx(geometry.det_partition.cell_sides, 0)
             det_count == geometry.detector_size
             angles == geometry.angles
         IN  Created("parallel", <<det_width, det_count, angles>>, <<>>)
    ELSE IF IsDivergent(geometry) /\ geometry.detector_is_flat /\ geometry.ndim = 2
    THEN LET det_count == geometry.detector_size
             vec == astra_conebeam_2d_geom_to_vec(geometry)
         IN  Created("fanflat_vec", <<det_count, vec>>,
                     <<Call("astra_conebeam_2d_geom_to_vec", <<>>)>>)
    ELSE IF IsParallel(geometry) /\ geometry.detector_is_flat /\ geometry.ndim = 3
    THEN LET det_row_count == Idx(geometry.det_partition.shape, 1)
             det_col_count == Idx(geometry.det_partition.shape, 0)
             vec == astra_parallel_3d_geom_to_vec(geometry)
         IN  Created("parallel3d_vec", <<det_row_count, det_col_count, vec>>,
                     <<Call("astra_parallel_3d_geom_to_vec", <<>>)>>)
    ELSE IF IsDivergent(geometry) /\ geometry.detector_is_flat /\ geometry.ndim = 3
    THEN LET det_row_count == Idx(geometry.det_partition.shape, 1)
             det_col_count == Idx(geometry.det_partition.shape, 0)
             vec == astra_conebeam_3d_geom_to_vec(geometry)
         IN  Created("cone_vec", <<det_row_count, det_col_count, vec>>,
                     <<Call("astra_conebeam_3d_geom_to_vec", <<>>)>>)
    ELSE BuiltOutcome(Raise("NotImplementedError", "UnsupportedGeometryVariant"), <<>>)

astra_projection_geometry(geometry, cache) ==
    IF ~geometry.is_Geometry
    THEN ProjOutcome(Raise("TypeError", "NotGeometry"), <<>>, cache)
    ELSE IF cache_lookup(cache) # None
    THEN ProjOutcome(Return(cache_lookup(cache)[1]), <<>>, cache)
    ELSE LET built == compute_proj_geom(geometry)
         IN  IF built.result.ok
             THEN ProjOutcome(built.result, built.calls,
                              cache_store(cache, built.result.value))
             ELSE ProjOutcome(built.result, built.calls, cache)

Angles == {0, 1}
AngleSeqs == UNION {[1..n -> Angles] : n \in 0..MaxAngles}
GeometryDims == {1, 2, 3, 4}
Product(s) == IF Len(s) = 0 THEN 1 ELSE IF Len(s) = 1 THEN s[1] ELSE s[1] * s[2]

\* Detector partitions of a geometry of dimension n (1 axis in 2D, 2 in 3D).
DetPartitions(n) ==
    LET axes == IF n = 3 THEN 2 ELSE 1
    IN  {[is_uniform |-> u, shape |-> s, cell_sides |-> c] :
            u \in BOOLEAN, s \in [1..axes -> {2, 3}], c \in [1..axes -> {1, 2}]}

Geometries ==
    UNION {{[is_Geometry |-> TRUE, beam |-> b, detector_is_flat |-> f, ndim |-> n,
             det_partition |-> dp, detector_size |-> Product(dp.shape),
             det_params_mid_pt |-> 0, angles |-> angs] :
                b \in {"parallel", "divergent", "other"}, f \in BOOLEAN,
                dp \in DetPartitions(n), angs \in AngleSeqs} : n \in GeometryDims}

NotAGeometry ==
    [is_Geometry |-> FALSE, beam |-> "other", detector_is_flat |-> FALSE, ndim |-> 2,
     det_partition |-> [is_uniform |-> TRUE, shape |-> <<2>>, cell_sides |-> <<1>>],
     detector_size |-> 2, det_params_mid_pt |-> 0, angles |-> <<>>]

ProjectionArgs ==
    {[fn |-> "astra_projection_geometry", geometry |-> g] :
        g \in Geometries \cup {NotAGeometry}}

InitProjection ==
    /\ ASTRA_VERSION = <<1, 8, 0>>
    /\ args \in ProjectionArgs
    /\ implementation_cache = EmptyDict
    /\ heap = <<>>
    /\ astra_objects = <<>>
    /\ calls = <<>>
    /\ retval = NotCalled
    /\ ncalls = 0
    /\ threads = <<>>

CallProjectionGeometry ==
    /\ args.fn = "astra_projection_geometry"
    /\ ncalls < MaxCalls
    /\ LET out == astra_projection_geometry(args.geometry, implementation_cache)
       IN  /\ retval' = out.result
           /\ calls' = out.calls
           /\ implementation_cache' = out.cache
    /\ ncalls' = ncalls + 1
    /\ UNCHANGED <<ASTRA_VERSION, args, heap, astra_objects, threads>>

----------------------------------------------------------------------------
(* Data buffers.  An array is a record naming the host buffer (heap index) *)
(* that backs it; a backend data object made by link names the buffer it   *)
(* reads and writes, one made by create owns zero-filled memory (None).    *)

Array(buf, dtype, c_contiguous, ndim) ==
    [buf |-> buf, dtype |-> dtype, c_contiguous |-> c_contiguous, ndim |-> ndim]

ArrayOutcome(array, h) == [array |-> array, heap |-> h]

\* data.asarray() / data.__array__() of a DiscreteLpElement: a view of the
\* element's storage or a new array, as the element's tensor type decides.
element_asarray(data, h) ==
    IF data.asarray_is_view
    THEN ArrayOutcome(Array(data.buf, data.dtype, data.c_contiguous, data.ndim), h)
    ELSE ArrayOutcome(Array(Len(h) + 1, data.dtype, TRUE, data.ndim),
                      Append(h, h[data.buf]))

\* Variant that always allocates, as np.array(a, dtype='float32', order='C').
np_asarray_float32_C_copying(a, h) ==
    ArrayOutcome(Array(Len(h) + 1, "float32", TRUE, a.ndim), Append(h, h[a.buf]))

\* np.asarray(a, dtype='float32', order='C') of an array: the array itself
\* when it already has that dtype and layout, a converted copy otherwise.
np_asarray_float32_C(a, h) ==
    IF a.dtype = "float32" /\ a.c_contiguous
    THEN ArrayOutcome(a, h)
    ELSE ArrayOutcome(Array(Len(h) + 1, "float32", TRUE, a.ndim), Append(h, h[a.buf]))

DataOutcome(r, c, h, objs) == [result |-> r, calls |-> c, heap |-> h, objects |-> objs]

\* astra.data2d.link / astra.data3d.link: refuses memory that is not
\* float32 and C-contiguous, otherwise registers an object on that memory.
link(module, astra_dtype_str, astra_geom, array, h, objs) ==
    LET c == <<Call("astra." \o module \o ".link", <<astra_dtype_str, array.buf>>)>>
    IN  IF array.dtype = "float32" /\ array.c_contiguous
        THEN DataOutcome(Return(Len(objs) + 1), c, h,
                         Append(objs, [kind |-> "data", module |-> module,
                                       datatype |-> astra_dtype_str,
                                       geom |-> astra_geom, buf |-> Some(array.buf)]))
        ELSE DataOutcome(Raise("ValueError", "BackendRejectedLayout"), c, h, objs)

\* astra.data2d.create / astra.data3d.create: a zero-filled backend buffer.
create(module, astra_dtype_str, astra_geom, h, objs) ==
    DataOutcome(Return(Len(objs) + 1),
                <<Call("astra." \o module \o ".create", <<astra_dtype_str>>)>>, h,
                Append(objs, [kind |-> "data", module |-> module,
                              datatype |-> astra_dtype_str,
                              geom |-> astra_geom, buf |-> None]))

IsArrayLike(data) == data.cls \in {"DiscreteLpElement", "ndarray"}

\* Faulty variant: the ndim argument used even when data is given.
data_ndim_from_argument(data, ndim_arg) == ndim_arg

\* The dimension the function works with: that of data when data is given,
\* the ndim argument otherwise.
data_ndim(data, ndim_arg) ==
    IF data # None THEN data[1].ndim ELSE ndim_arg

astra_data(astra_geom, datatype, data, ndim_arg, allow_copy, h, objs) ==
    IF data # None /\ ~IsArrayLike(data[1])
    THEN DataOutcome(Raise("TypeError", "InvalidDataType"), <<>>, h, objs)
    ELSE
    LET ndim == data_ndim(data, ndim_arg)
    IN  IF datatype \notin {"volume", "projection"}
        THEN DataOutcome(Raise("ValueError", "InvalidConfiguration"), <<>>, h, objs)
        ELSE IF ndim \notin {2, 3}
        THEN DataOutcome(Raise("ValueError", "UnsupportedDimension"), <<>>, h, objs)
        ELSE
        LET astra_dtype_str == IF datatype = "volume" THEN "-vol" ELSE "-sino"
            module == IF ndim = 2 THEN "data2d" ELSE "data3d"
        IN  IF data # None
            THEN IF allow_copy
                 THEN LET src == IF data[1].cls = "ndarray"
                                 THEN ArrayOutcome(Array(data[1].buf, data[1].dtype,
                                                         data[1].c_contiguous,
                                                         data[1].ndim), h)
                                 ELSE element_asarray(data[1], h)
                          data_array == np_asarray_float32_C(src.array, src.heap)
                      IN  link(module, astra_dtype_str, astra_geom,
                               data_array.array, data_array.heap, objs)
                 ELSE IF data[1].cls = "ndarray"
                 THEN link(module, astra_dtype_str, astra_geom,
                           Array(data[1].buf, data[1].dtype, data[1].c_contiguous,
                                 data[1].ndim), h, objs)
                 ELSE IF data[1].impl = "numpy"
                 THEN LET arr == element_asarray(data[1], h)
                      IN  link(module, astra_dtype_str, astra_geom,
                               arr.array, arr.heap, objs)
                 ELSE DataOutcome(Raise("NotImplementedError", "UnsupportedDataLayout"),
                                  <<>>, h, objs)
            ELSE create(module, astra_dtype_str, astra_geom, h, objs)

DataDims == {1, 2, 3}

DataValues ==
    {[cls |-> "ndarray", ndim |-> n, dtype |-> t, c_contiguous |-> c,
      impl |-> "numpy", asarray_is_view |-> FALSE, buf |-> 1] :
        n \in DataDims, t \in {"float32", "float64"}, c \in BOOLEAN}
    \cup
    {[cls |-> "DiscreteLpElement", ndim |-> n, dtype |-> t, c_contiguous |-> c,
      impl |-> "numpy", asarray_is_view |-> v, buf |-> 1] :
        n \in DataDims, t \in {"float32", "float64"}, c \in BOOLEAN, v \in BOOLEAN}
    \cup
    {[cls |-> "DiscreteLpElement", ndim |-> n, dtype |-> t, c_contiguous |-> TRUE,
      impl |-> "cuda", asarray_is_view |-> FALSE, buf |-> 1] :
        n \in DataDims, t \in {"float32", "float64"}}
    \cup
    {[cls |-> "list", ndim |-> 2, dtype |-> "float64", c_contiguous |-> FALSE,
      impl |-> "numpy", asarray_is_view |-> FALSE, buf |-> 1]}

DataArgs ==
    {[fn |-> "astra_data", astra_geom |-> "astra_geom", datatype |-> t, data |-> d,
      ndim |-> n, allow_copy |-> c] :
        t \in {"volume", "projection", "image"},
        d \in {None} \cup {Some(v) : v \in DataValues},
        n \in DataDims \cup {4}, c \in BOOLEAN}

InitData ==
    /\ ASTRA_VERSION = <<1, 8, 0>>
    /\ args \in DataArgs
    /\ implementation_cache = EmptyDict
    /\ heap = IF args.data = None THEN <<>> ELSE <<"host">>
    /\ astra_objects = <<>>
    /\ calls = <<>>
    /\ retval = NotCalled
    /\ ncalls = 0
    /\ threads = <<>>

CallData ==
    /\ args.fn = "astra_data"
    /\ ncalls < MaxCalls
    /\ LET out == astra_data(args.astra_geom, args.datatype, args.data, args.ndim,
                             args.allow_copy, heap, astra_objects)
       IN  /\ retval' = out.result
           /\ calls' = out.calls
           /\ heap' = out.heap
           /\ astra_objects' = out.objects
    /\ ncalls' = ncalls + 1
    /\ UNCHANGED <<ASTRA_VERSION, args, implementation_cache, threads>>

\* ASTRA writes into the memory of a linked data object (running an
\* algorithm that has the object as its output).
BackendWrite ==
    /\ \E id \in 1..Len(astra_objects) :
          /\ astra_objects[id].kind = "data"
          /\ astra_objects[id].buf # None
          /\ heap[astra_objects[id].buf[1]] # "astra"
          /\ heap' = [heap EXCEPT ![astra_objects[id].buf[1]] = "astra"]
    /\ UNCHANGED <<ASTRA_VERSION, args, implementation_cache, astra_objects,
                   calls, retval, ncalls, threads>>

----------------------------------------------------------------------------
(* Projector. *)

\* str(impl).lower() on the spellings the model passes.
Lower(impl) ==
    CASE impl = "CPU" -> "cpu"
      [] impl = "CUDA" -> "cuda"
      [] OTHER -> impl

ProjTypes == {"parallel", "fanflat", "fanflat_vec",
              "parallel3d", "parallel3d_vec", "cone", "cone_vec"}

type_map_cpu ==
    [parallel |-> [nearest |-> "line", linear |-> "linear"],
     fanflat |-> [nearest |-> "line_fanflat", linear |-> "line_fanflat"],
     parallel3d |-> [nearest |-> "linear3d", linear |-> "linear3d"],
     cone |-> [nearest |-> "linearcone", linear |-> "linearcone"],
     fanflat_vec |-> [nearest |-> "line_fanflat", linear |-> "line_fanflat"],
     parallel3d_vec |-> [nearest |-> "linear3d", linear |-> "linear3d"],
     cone_vec |-> [nearest |-> "linearcone", linear |-> "linearcone"]]

\* Faulty variant: the 2D vector type given the 3D tag.
type_map_cuda_fan_vec_3d ==
    [parallel |-> "cuda", parallel3d |-> "cuda3d", fanflat |-> "cuda",
     fanflat_vec |-> "cuda3d", cone |-> "cuda3d", parallel3d_vec |-> "cuda3d",
     cone_vec |-> "cuda3d"]

type_map_cuda ==
    [parallel |-> "cuda", parallel3d |-> "cuda3d", fanflat |-> "cuda",
     fanflat_vec |-> "cuda", cone |-> "cuda3d", parallel3d_vec |-> "cuda3d",
     cone_vec |-> "cuda3d"]

HandleOutcome(r, c, objs) == [result |-> r, calls |-> c, objects |-> objs]

\* astra.projector.create / astra.projector3d.create.
projector_create(module, proj_cfg, objs) ==
    HandleOutcome(Return(Len(objs) + 1),
                  <<Call("astra." \o module \o ".create", <<proj_cfg>>)>>,
                  Append(objs, [kind |-> "projector", module |-> module,
                                cfg |-> proj_cfg]))

\* Faulty variant: the 3D-on-cpu test moved to the front.
projector_checks_cpu3d_first(vol_interp, astra_proj_geom, ndim, impl) ==
    IF ndim = 3 /\ impl = "cpu"
    THEN Some(Raise("ValueError", "UnsupportedCpu3D"))
    ELSE IF vol_interp \notin {"nearest", "linear"}
    THEN Some(Raise("ValueError", "InvalidConfiguration"))
    ELSE IF impl \notin {"cpu", "cuda"}
    THEN Some(Raise("ValueError", "InvalidConfiguration"))
    ELSE IF "type" \notin DOMAIN astra_proj_geom
    THEN Some(Raise("ValueError", "InvalidConfiguration"))
    ELSE IF astra_proj_geom["type"] \notin ProjTypes
    THEN Some(Raise("ValueError", "InvalidConfiguration"))
    ELSE None

\* The preconditions of astra_projector, in the order the code tests them;
\* None when all pass.
projector_checks(vol_interp, astra_proj_geom, ndim, impl) ==
    IF vol_interp \notin {"nearest", "linear"}
    THEN Some(Raise("ValueError", "InvalidConfiguration"))
    ELSE IF impl \notin {"cpu", "cuda"}
    THEN Some(Raise("ValueError", "InvalidConfiguration"))
    ELSE IF "type" \notin DOMAIN astra_proj_geom
    THEN Some(Raise("ValueError", "InvalidConfiguration"))
    ELSE IF ndim = 3 /\ impl = "cpu"
    THEN Some(Raise("ValueError", "UnsupportedCpu3D"))
    ELSE IF astra_proj_geom["type"] \notin ProjTypes
    THEN Some(Raise("ValueError", "InvalidConfiguration"))
    ELSE None

\* Faulty variant: the 3D module taken for dimension 3 only.
projector_module_3d_for_3_only(ndim) ==
    IF ndim = 3 THEN "projector3d" ELSE "projector"

\* The backend module whose create is called: astra.projector for
\* dimension 2, astra.projector3d for every other.
projector_module(ndim) ==
    IF ndim = 2 THEN "projector" ELSE "projector3d"

astra_projector(version, vol_interp, astra_vol_geom, astra_proj_geom, ndim, impl_arg, objs) ==
    LET impl == Lower(impl_arg)
        failed == projector_checks(vol_interp, astra_proj_geom, ndim, impl)
    IN  IF failed # None
        THEN HandleOutcome(failed[1], <<>>, objs)
        ELSE
        LET proj_type == astra_proj_geom["type"]
            options == IF /\ proj_type \in {"cone", "cone_vec"}
                          /\ astra_supports(version, "cone3d_hacky_density_weighting")
                       THEN [DensityWeighting |-> TRUE]
                       ELSE EmptyDict
            proj_cfg == [type |-> IF impl = "cpu"
                                  THEN type_map_cpu[proj_type][vol_interp]
                                  ELSE type_map_cuda[proj_type],
                         VolumeGeometry |-> astra_vol_geom,
                         ProjectionGeometry |-> astra_proj_geom,
                         options |-> options]
        IN  projector_create(projector_module(ndim), proj_cfg, objs)

ProjGeomDicts ==
    {[type |-> t, DetectorCount |-> 2] : t \in ProjTypes \cup {"sparse_matrix"}}
    \cup {[DetectorCount |-> 2]}

ProjectorArgs ==
    {[fn |-> "astra_projector", vol_interp |-> v, astra_vol_geom |-> "vol_geom",
      astra_proj_geom |-> g, ndim |-> n, impl |-> i] :
        v \in {"nearest", "linear", "cubic"}, g \in ProjGeomDicts,
        n \in {1, 2, 3, 4}, i \in {"cpu", "cuda", "CUDA", "opencl"}}

InitProjector ==
    /\ ASTRA_VERSION \in Versions
    /\ args \in ProjectorArgs
    /\ implementation_cache = EmptyDict
    /\ heap = <<>>
    /\ astra_objects = <<>>
    /\ calls = <<>>
    /\ retval = NotCalled
    /\ ncalls = 0
    /\ threads = <<>>

CallProjector ==
    /\ args.fn = "astra_projector"
    /\ ncalls < MaxCalls
    /\ LET out == astra_projector(ASTRA_VERSION, args.vol_interp, args.astra_vol_geom,
                                  args.astra_proj_geom, args.ndim, args.impl,
                                  astra_objects)
       IN  /\ retval' = out.result
           /\ calls' = out.calls
           /\ astra_objects' = out.objects
    /\ ncalls' = ncalls + 1
    /\ UNCHANGED <<ASTRA_VERSION, args, implementation_cache, heap, threads>>

----------------------------------------------------------------------------
(* Algorithm. *)

\* A Python string object: its characters, and whether it is the interned
\* object a literal of the same characters denotes.
Str(val, interned) == [val |-> val, interned |-> interned]

\* direction is 'forward'
direction_is_forward(direction) == direction.val = "forward" /\ direction.interned

algo_map ==
    [forward |-> (2 :> [cpu |-> Some("FP"), cuda |-> Some("FP_CUDA")]
                  @@ 3 :> [cpu |-> None, cuda |-> Some("FP3D_CUDA")]),
     backward |-> (2 :> [cpu |-> Some("BP"), cuda |-> Some("BP_CUDA")]
                   @@ 3 :> [cpu |-> None, cuda |-> Some("BP3D_CUDA")])]

\* astra.algorithm.create.
algorithm_create(algo_cfg, objs) ==
    HandleOutcome(Return(Len(objs) + 1),
                  <<Call("astra.algorithm.create", <<algo_cfg>>)>>,
                  Append(objs, [kind |-> "algorithm", module |-> "algorithm",
                                cfg |-> algo_cfg]))

\* Faulty variant: the missing-projector test before the 3D-on-cpu test.
algorithm_checks_projector_first(direction, ndim, proj_id, impl) ==
    IF direction.val \notin {"forward", "backward"}
    THEN Some(Raise("ValueError", "InvalidConfiguration"))
    ELSE IF ndim \notin {2, 3}
    THEN Some(Raise("ValueError", "UnsupportedDimension"))
    ELSE IF impl \notin {"cpu", "cuda"}
    THEN Some(Raise("ValueError", "InvalidConfiguration"))
    ELSE IF proj_id = None /\ impl = "cpu"
    THEN Some(Raise("ValueError", "MissingProjector"))
    ELSE IF ndim = 3 /\ impl = "cpu"
    THEN Some(Raise("NotImplementedError", "UnsupportedCpu3D"))
    ELSE None

\* The preconditions of astra_algorithm, in the order the code tests them;
\* None when all pass.
algorithm_checks(direction, ndim, proj_id, impl) ==
    IF direction.val \notin {"forward", "backward"}
    THEN Some(Raise("ValueError", "InvalidConfiguration"))
    ELSE IF ndim \notin {2, 3}
    THEN Some(Raise("ValueError", "UnsupportedDimension"))
    ELSE IF impl \notin {"cpu", "cuda"}
    THEN Some(Raise("ValueError", "InvalidConfiguration"))
    ELSE IF ndim = 3 /\ impl = "cpu"
    THEN Some(Raise("NotImplementedError", "UnsupportedCpu3D"))
    ELSE IF proj_id = None /\ impl = "cpu"
    THEN Some(Raise("ValueError", "MissingProjector"))
    ELSE None

astra_algorithm(direction, ndim, vol_id, sino_id, proj_id, impl, objs) ==
    LET failed == algorithm_checks(direction, ndim, proj_id, impl)
    IN  IF failed # None
        THEN HandleOutcome(failed[1], <<>>, objs)
        ELSE
        LET base == [type |-> algo_map[direction.val][ndim][impl],
                     ProjectorId |-> proj_id,
                     ProjectionDataId |-> Some(sino_id)]
            algo_cfg == IF direction_is_forward(direction)
                        THEN DictSet(base, "VolumeDataId", Some(vol_id))
                        ELSE DictSet(base, "ReconstructionDataId", Some(vol_id))
        IN  algorithm_create(algo_cfg, objs)

Directions ==
    {Str(v, i) : v \in {"forward", "backward", "sideways"}, i \in BOOLEAN}

AlgorithmArgs ==
    {[fn |-> "astra_algorithm", direction |-> d, ndim |-> n, vol_id |-> 1,
      sino_id |-> 2, proj_id |-> p, impl |-> i] :
        d \in Directions, n \in {1, 2, 3, 4}, p \in {None, Some(3)},
        i \in {"cpu", "cuda", "CUDA", "opencl"}}

\* The caller holds a volume, a sinogram and a projector made earlier.
EarlierObjects ==
    <<[kind |-> "data", module |-> "data2d", datatype |-> "-vol",
       geom |-> "astra_geom", buf |-> None],
      [kind |-> "data", module |-> "data2d", datatype |-> "-sino",
       geom |-> "astra_geom", buf |-> None],
      [kind |-> "projector", module |-> "projector", cfg |-> EmptyDict]>>

InitAlgorithm ==
    /\ ASTRA_VERSION = <<1, 8, 0>>
    /\ args \in AlgorithmArgs
    /\ implementation_cache = EmptyDict
    /\ heap = <<>>
    /\ astra_objects = EarlierObjects
    /\ calls = <<>>
    /\ retval = NotCalled
    /\ ncalls = 0
    /\ threads = <<>>

CallAlgorithm ==
    /\ args.fn = "astra_algorithm"
    /\ ncalls < MaxCalls
    /\ LET out == astra_algorithm(args.direction, args.ndim, args.vol_id, args.sino_id,
                                  args.proj_id, args.impl, astra_objects)
       IN  /\ retval' = out.result
           /\ calls' = out.calls
           /\ astra_objects' = out.objects
    /\ ncalls' = ncalls + 1
    /\ UNCHANGED <<ASTRA_VERSION, args, implementation_cache, heap, threads>>

----------------------------------------------------------------------------
Init ==
    \/ InitVolume
    \/ InitProjection
    \/ InitData
    \/ InitProjector
    \/ InitAlgorithm

Next ==
    \/ CallVolumeGeometry
    \/ CallProjectionGeometry
    \/ CallData
    \/ BackendWrite
    \/ CallProjector
    \/ CallAlgorithm

Spec == Init /\ [][Next]_vars

----------------------------------------------------------------------------
(* Two threads in astra_projection_geometry on one geometry.  A thread can *)
(* be switched out between any two bytecodes, so the cache shortcut, the   *)
(* computation of proj_geom, the test 'astra' not in the cache, the store  *)
(* and the return are steps of their own.  The dictionary that             *)
(* astra.create_proj_geom returns is a new object at every call: id names  *)
(* the thread whose call made it.                                          *)

Callers == {1, 2}

Object(id, dict) == [id |-> id, dict |-> dict]

Thread(pc, proj_geom, result) == [pc |-> pc, proj_geom |-> proj_geom, result |-> result]

InitRace ==
    /\ ASTRA_VERSION = <<1, 8, 0>>
    /\ args \in ProjectionArgs
    /\ implementation_cache = EmptyDict
    /\ heap = <<>>
    /\ astra_objects = <<>>
    /\ calls = <<>>
    /\ retval = NotCalled
    /\ ncalls = 0
    /\ threads = [t \in Callers |-> Thread("enter", None, NotCalled)]

\* The type test and the cache shortcut.
RaceEnter(t) ==
    /\ threads[t].pc = "enter"
    /\ threads' = [threads EXCEPT ![t] =
          IF ~args.geometry.is_Geometry
          THEN Thread("done", None, Raise("TypeError", "NotGeometry"))
          ELSE IF cache_lookup(implementation_cache) # None
          THEN Thread("done", None, Return(cache_lookup(implementation_cache)[1]))
          ELSE Thread("compute", None, NotCalled)]
    /\ UNCHANGED <<ASTRA_VERSION, args, implementation_cache, heap, astra_objects,
                   calls, retval, ncalls>>

\* The uniformity test and the dispatch: proj_geom is a new object, or the
\* call raises.  calls collects the calls of all threads.
RaceCompute(t) ==
    /\ threads[t].pc = "compute"
    /\ LET built == compute_proj_geom(args.geometry)
       IN  /\ threads' = [threads EXCEPT ![t] =
                 IF built.result.ok
                 THEN Thread("test", Some(Object(t, built.result.value)), NotCalled)
                 ELSE Thread("done", None, built.result)]
           /\ calls' = calls \o built.calls
    /\ UNCHANGED <<ASTRA_VERSION, args, implementation_cache, heap, astra_objects,
                   retval, ncalls>>

\* if 'astra' not in geometry.implementation_cache
RaceTest(t) ==
    /\ threads[t].pc = "test"
    /\ threads' = [threads EXCEPT ![t].pc =
          IF "astra" \notin DOMAIN implementation_cache THEN "store" ELSE "return"]
    /\ UNCHANGED <<ASTRA_VERSION, args, implementation_cache, heap, astra_objects,
                   calls, retval, ncalls>>

\* geometry.implementation_cache['astra'] = proj_geom
RaceStore(t) ==
    /\ threads[t].pc = "store"
    /\ implementation_cache' =
          DictSet(implementation_cache, "astra", threads[t].proj_geom[1])
    /\ threads' = [threads EXCEPT ![t].pc = "return"]
    /\ UNCHANGED <<ASTRA_VERSION, args, heap, astra_objects, calls, retval, ncalls>>

\* return proj_geom
RaceReturn(t) ==
    /\ threads[t].pc = "return"
    /\ threads' = [threads EXCEPT ![t] =
          Thread("done", threads[t].proj_geom, Return(threads[t].proj_geom[1]))]
    /\ UNCHANGED <<ASTRA_VERSION, args, implementation_cache, heap, astra_objects,
                   calls, retval, ncalls>>

NextRace ==
    \E t \in Callers :
        \/ RaceEnter(t)
        \/ RaceCompute(t)
        \/ RaceTest(t)
        \/ RaceStore(t)
        \/ RaceReturn(t)

SpecRace == InitRace /\ [][NextRace]_vars

----------------------------------------------------------------------------
(* Properties of astra_projection_geometry. *)

OnProjection == args.fn = "astra_projection_geometry"

\* The vector builders the latest call ran.
BuildersRun ==
    {calls[i].fn : i \in 1..Len(calls)} \ {"astra.create_proj_geom"}

\* The (beam, detector, dimension) combinations the dispatcher serves.
Dispatchable(g) ==
    g.beam \in {"parallel", "divergent"} /\ g.detector_is_flat /\ g.ndim \in {2, 3}

\* C1: once a call of astra_projection_geometry on a geometry has succeeded,
\* every later call returns that same descriptor, runs no vector builder and
\* creates no backend descriptor, and the cache keeps exactly the one entry
\* 'astra', whose value never changes.  (A call is a step that raises ncalls;
\* the first success is the step that fills the cache with what it returns.)
C1_CacheHit ==
    [][/\ (OnProjection /\ ncalls' # ncalls /\ retval'.ok)
            => /\ DOMAIN implementation_cache' = {"astra"}
               /\ implementation_cache'["astra"] = retval'.value
       /\ (OnProjection /\ "astra" \in DOMAIN implementation_cache)
            => /\ implementation_cache' = implementation_cache
               /\ ncalls' # ncalls
                    => /\ retval' = Return(implementation_cache["astra"])
                       /\ calls' = <<>>]_vars

C1_Witness ==
    /\ OnProjection
    /\ ncalls = 2
    /\ DOMAIN implementation_cache = {"astra"}
    /\ retval = Return(implementation_cache["astra"])
    /\ implementation_cache["astra"].type = "cone_vec"
    /\ calls = <<>>

\* C2: a call that fails on a geometry with an empty cache, because the
\* detector partition is not uniform or the combination is not served,
\* returns no descriptor, and the cache is as empty as before the call.
C2_FailureWritesNothing ==
    (/\ OnProjection
     /\ ncalls > 0
     /\ args.geometry.is_Geometry
     /\ ~args.geometry.det_partition.is_uniform \/ ~Dispatchable(args.geometry))
    => /\ ~retval.ok
       /\ retval.value = None
       /\ retval.kind = IF ~args.geometry.det_partition.is_uniform
                        THEN "NonUniformDetector"
                        ELSE "UnsupportedGeometryVariant"
       /\ implementation_cache = EmptyDict
       /\ calls = <<>>

C2_Witness ==
    /\ OnProjection
    /\ ncalls = 2
    /\ args.geometry.det_partition.is_uniform
    /\ args.geometry.beam = "other"
    /\ args.geometry.ndim = 2
    /\ retval.kind = "UnsupportedGeometryVariant"
    /\ implementation_cache = EmptyDict

\* C3: with a uniform detector partition and an empty cache the first call
\* dispatches on (beam, flat detector, dimension): parallel 2D gives the
\* parametric 'parallel' descriptor with the raw angles and runs no builder,
\* divergent 2D gives 'fanflat_vec' from the fan builder, parallel 3D gives
\* 'parallel3d_vec' from the parallel-3D builder, divergent 3D gives
\* 'cone_vec' from the cone builder; every other combination fails with
\* UnsupportedGeometryVariant.
C3_Dispatch ==
    (/\ OnProjection
     /\ ncalls = 1
     /\ args.geometry.is_Geometry
     /\ args.geometry.det_partition.is_uniform)
    => LET g == args.geometry
       IN  /\ (g.beam = "parallel" /\ g.detector_is_flat /\ g.ndim = 2)
                => /\ retval.ok
                   /\ retval.value.type = "parallel"
                   /\ retval.value.ProjectionAngles = g.angles
                   /\ BuildersRun = {}
           /\ (g.beam = "divergent" /\ g.detector_is_flat /\ g.ndim = 2)
                => /\ retval.ok
                   /\ retval.value.type = "fanflat_vec"
                   /\ BuildersRun = {"astra_conebeam_2d_geom_to_vec"}
           /\ (g.beam = "parallel" /\ g.detector_is_flat /\ g.ndim = 3)
                => /\ retval.ok
                   /\ retval.value.type = "parallel3d_vec"
                   /\ BuildersRun = {"astra_parallel_3d_geom_to_vec"}
           /\ (g.beam = "divergent" /\ g.detector_is_flat /\ g.ndim = 3)
                => /\ retval.ok
                   /\ retval.value.type = "cone_vec"
                   /\ BuildersRun = {"astra_conebeam_3d_geom_to_vec"}
           /\ ~Dispatchable(g)
                => /\ ~retval.ok
                   /\ retval.kind = "UnsupportedGeometryVariant"
                   /\ retval.exc = "NotImplementedError"

C3_Witness ==
    /\ OnProjection
    /\ ncalls = 1
    /\ args.geometry.beam = "divergent"
    /\ args.geometry.ndim = 2
    /\ args.geometry.angles = <<1, 0>>
    /\ retval.ok
    /\ retval.value.type = "fanflat_vec"
    /\ Len(retval.value.Vectors) = 2

----------------------------------------------------------------------------
(* Properties of astra_volume_geometry. *)

OnVolume == args.fn = "astra_volume_geometry"

\* A grid the type and uniformity checks let through.
IsVolumeGrid(d) == d.is_DiscreteLp /\ d.is_uniform

\* Cell sizes differ between two axes: (max_i - min_i) / n_i # (max_j - min_j) / n_j.
Anisotropic(part) ==
    \E i, j \in 1..Len(part.shape) :
        (part.max_pt[i] - part.min_pt[i]) * part.shape[j]
            # (part.max_pt[j] - part.min_pt[j]) * part.shape[i]

C5_Volume2D ==
    (OnVolume /\ ncalls > 0 /\ IsVolumeGrid(args.discr_reco))
    => LET part == args.discr_reco.partition
           v == retval.value
       IN  /\ (args.discr_reco.ndim = 2 /\ retval.ok)
                => /\ v.GridRowCount = part.shape[2]
                   /\ v.GridColCount = part.shape[1]
                   /\ <<v.WindowMinX, v.WindowMaxX, v.WindowMinY, v.WindowMaxY>>
                        = <<part.min_pt[1], part.max_pt[1],
                            part.min_pt[2], part.max_pt[2]>>
                   /\ SubSeq(calls[1].args, 3, 6)
                        = <<part.min_pt[1], part.max_pt[1],
                            part.min_pt[2], part.max_pt[2]>>
           /\ args.discr_reco.ndim \notin {2, 3}
                => /\ ~retval.ok
                   /\ retval.kind = "UnsupportedDimension"
                   /\ retval.value = None
                   /\ calls = <<>>

C5_Witness ==
    /\ OnVolume
    /\ ncalls > 0
    /\ args.discr_reco.ndim = 2
    /\ args.discr_reco.partition.shape = <<1, 2>>
    /\ args.discr_reco.partition.min_pt = <<-1, -2>>
    /\ retval.ok
    /\ retval.value.GridRowCount = 2
    /\ retval.value.GridColCount = 1

----------------------------------------------------------------------------
(* Properties of astra_data. *)

OnData == args.fn = "astra_data"

\* C7: with allow_copy true and data supplied, astra_data links a fresh copy
\* and never the caller's storage, so whatever the backend later writes to
\* the linked buffer, the caller's data keeps its contents.
C7_CopyIsolatesCaller ==
    (OnData /\ args.data # None /\ args.allow_copy)
    => heap[args.data[1].buf] = "host"

----------------------------------------------------------------------------
(* Properties of astra_projector and astra_algorithm. *)

OnProjector == args.fn = "astra_projector"
OnAlgorithm == args.fn = "astra_algorithm"

\* The store as the caller's earlier calls left it.
StoreBefore == IF OnAlgorithm THEN EarlierObjects ELSE <<>>
NothingCreated == astra_objects = StoreBefore /\ calls = <<>>

\* A 3D request for the cpu with a valid interpolation (projector) or a
\* valid direction (algorithm).
Cpu3DProjector ==
    /\ OnProjector
    /\ ncalls > 0
    /\ args.vol_interp \in {"nearest", "linear"}
    /\ args.ndim = 3
    /\ args.impl \in {"cpu", "CPU"}

Cpu3DAlgorithm ==
    /\ OnAlgorithm
    /\ ncalls > 0
    /\ args.direction.val \in {"forward", "backward"}
    /\ args.ndim = 3
    /\ args.impl = "cpu"

\* C8, as stated: with dim 3 and target cpu both factories fail with
\* UnsupportedCpu3D whatever the other arguments are, and create no handle.
C8_Cpu3DAlwaysUnsupportedCpu3D ==
    (Cpu3DProjector \/ Cpu3DAlgorithm)
    => /\ ~retval.ok
       /\ retval.kind = "UnsupportedCpu3D"
       /\ NothingCreated

\* C8, amended: with dim 3 and target cpu, astra_algorithm fails with
\* UnsupportedCpu3D (a NotImplementedError) whatever the other arguments are;
\* astra_projector fails with UnsupportedCpu3D (a ValueError) for every
\* descriptor that has a type tag, recognized or not, and with
\* InvalidConfiguration for a descriptor without one; no handle is created.
C8_Cpu3DRejected ==
    /\ Cpu3DProjector
         => /\ ~retval.ok
            /\ retval.exc = "ValueError"
            /\ retval.kind = IF "type" \in DOMAIN args.astra_proj_geom
                             THEN "UnsupportedCpu3D"
                             ELSE "InvalidConfiguration"
            /\ NothingCreated
    /\ Cpu3DAlgorithm
         => /\ ~retval.ok
            /\ retval.exc = "NotImplementedError"
            /\ retval.kind = "UnsupportedCpu3D"
            /\ NothingCreated

C8_Witness ==
    /\ Cpu3DProjector
    /\ "type" \in DOMAIN args.astra_proj_geom
    /\ args.astra_proj_geom["type"] = "sparse_matrix"
    /\ retval.kind = "UnsupportedCpu3D"
    /\ astra_objects = <<>>

\* A call of astra_algorithm with a valid direction, a dimension of 2 or 3
\* and no projector.
NoProjector(impl) ==
    /\ OnAlgorithm
    /\ ncalls > 0
    /\ args.direction.val \in {"forward", "backward"}
    /\ args.ndim \in {2, 3}
    /\ args.impl = impl
    /\ args.proj_id = None

\* With target cuda the missing projector is accepted and recorded as None.
CudaAcceptsNoProjector ==
    NoProjector("cuda")
    => /\ retval.ok
       /\ astra_objects[retval.value].kind = "algorithm"
       /\ astra_objects[retval.value].cfg["ProjectorId"] = None

\* C9, as stated: for both directions and both dimensions, target cpu
\* without a projector fails with MissingProjector and creates nothing;
\* target cuda accepts the missing projector.
C9_CpuNeedsProjectorAnyDim ==
    /\ NoProjector("cpu")
         => /\ ~retval.ok
            /\ retval.kind = "MissingProjector"
            /\ NothingCreated
    /\ CudaAcceptsNoProjector

\* C9, amended: target cpu without a projector fails with MissingProjector
\* for dim 2 and with UnsupportedCpu3D, which is tested first, for dim 3; in
\* both cases nothing is created; target cuda accepts the missing projector
\* and records it as None in the configuration.
C9_CpuNeedsProjector ==
    /\ NoProjector("cpu")
         => /\ ~retval.ok
            /\ retval.kind = IF args.ndim = 2 THEN "MissingProjector"
                             ELSE "UnsupportedCpu3D"
            /\ NothingCreated
    /\ CudaAcceptsNoProjector

C9_Witness ==
    /\ NoProjector("cpu")
    /\ args.ndim = 2
    /\ args.direction.val = "backward"
    /\ retval.kind = "MissingProjector"
    /\ astra_objects = EarlierObjects

\* The type tag of the table for (direction, dim, target).
AlgorithmTag(direction, ndim, impl) ==
    CASE direction = "forward" /\ ndim = 2 /\ impl = "cpu" -> "FP"
      [] direction = "forward" /\ ndim = 2 /\ impl = "cuda" -> "FP_CUDA"
      [] direction = "forward" /\ ndim = 3 /\ impl = "cuda" -> "FP3D_CUDA"
      [] direction = "backward" /\ ndim = 2 /\ impl = "cpu" -> "BP"
      [] direction = "backward" /\ ndim = 2 /\ impl = "cuda" -> "BP_CUDA"
      [] direction = "backward" /\ ndim = 3 /\ impl = "cuda" -> "BP3D_CUDA"
      [] OTHER -> "no tag"

\* C10: for every accepted input the configuration given to the backend has
\* the type tag of the table, the projector and projection-data references
\* and exactly one volume reference: VolumeDataId when direction equals
\* 'forward', ReconstructionDataId when it equals 'backward', whichever
\* string object carries the value.
C10_AlgorithmConfig ==
    (OnAlgorithm /\ ncalls > 0 /\ retval.ok)
    => LET cfg == astra_objects[retval.value].cfg
       IN  /\ cfg["type"] # None
           /\ cfg["type"] = Some(AlgorithmTag(args.direction.val, args.ndim, args.impl))
           /\ cfg["ProjectorId"] = args.proj_id
           /\ cfg["ProjectionDataId"] = Some(args.sino_id)
           /\ args.direction.val = "forward"
                => /\ DOMAIN cfg = {"type", "ProjectorId", "ProjectionDataId",
                                    "VolumeDataId"}
                   /\ cfg["VolumeDataId"] = Some(args.vol_id)
           /\ args.direction.val = "backward"
                => /\ DOMAIN cfg = {"type", "ProjectorId", "ProjectionDataId",
                                    "ReconstructionDataId"}
                   /\ cfg["ReconstructionDataId"] = Some(args.vol_id)

----------------------------------------------------------------------------
(* Properties of astra_projector. *)

\* A call of astra_projector with a valid interpolation and a valid target.
ProjectorCalled ==
    /\ OnProjector
    /\ ncalls > 0
    /\ args.vol_interp \in {"nearest", "linear"}
    /\ Lower(args.impl) \in {"cpu", "cuda"}

\* The geometry category of a descriptor type: a vector-based type belongs
\* to the category of its base type.
Category(type) ==
    CASE type = "fanflat_vec" -> "fanflat"
      [] type = "parallel3d_vec" -> "parallel3d"
      [] type = "cone_vec" -> "cone"
      [] OTHER -> type

\* The tag of a category for target cuda.
CudaTag(category) ==
    IF category \in {"parallel", "fanflat"} THEN "cuda" ELSE "cuda3d"

\* The configuration of the projector the latest call created.
ProjectorCfg == astra_objects[retval.value].cfg

\* An accepted call has the tag of its category: for cuda the same for both
\* interpolations, for cpu the tag of (category, interpolation).
TagOfCategory ==
    (ProjectorCalled /\ retval.ok)
    => LET type == args.astra_proj_geom["type"]
       IN  /\ type \in ProjTypes
           /\ Lower(args.impl) = "cuda"
                => ProjectorCfg["type"] = CudaTag(Category(type))
           /\ Lower(args.impl) = "cpu"
                => ProjectorCfg["type"] = type_map_cpu[Category(type)][args.vol_interp]

UnknownTag ==
    /\ "type" \in DOMAIN args.astra_proj_geom
    /\ args.astra_proj_geom["type"] \notin ProjTypes

\* C11, as stated: the tag is that of the category (cuda) or of (category,
\* interpolation) (cpu), a vector-based type resolving as its base type, and
\* a descriptor with a missing or unrecognized type tag is rejected with
\* InvalidConfiguration.
C11_TagOrInvalidConfiguration ==
    /\ TagOfCategory
    /\ (ProjectorCalled /\ ("type" \notin DOMAIN args.astra_proj_geom \/ UnknownTag))
         => /\ ~retval.ok
            /\ retval.kind = "InvalidConfiguration"

\* C11, amended: the tag is that of the category (cuda) or of (category,
\* interpolation) (cpu), a vector-based type resolving as its base type; a
\* descriptor with a missing type tag is rejected with InvalidConfiguration,
\* one with an unrecognized tag with InvalidConfiguration too unless dim is 3
\* and the target cpu, which is tested first and gives UnsupportedCpu3D; a
\* rejected call creates nothing.
C11_TypeTag ==
    /\ TagOfCategory
    /\ (ProjectorCalled /\ "type" \notin DOMAIN args.astra_proj_geom)
         => /\ ~retval.ok
            /\ retval.kind = "InvalidConfiguration"
            /\ NothingCreated
    /\ (ProjectorCalled /\ UnknownTag)
         => /\ ~retval.ok
            /\ retval.kind = IF args.ndim = 3 /\ Lower(args.impl) = "cpu"
                             THEN "UnsupportedCpu3D"
                             ELSE "InvalidConfiguration"
            /\ NothingCreated

C11_Witness ==
    /\ ProjectorCalled
    /\ "type" \in DOMAIN args.astra_proj_geom
    /\ args.astra_proj_geom["type"] = "fanflat_vec"
    /\ args.impl = "CUDA"
    /\ args.vol_interp = "linear"
    /\ retval.ok
    /\ ProjectorCfg["type"] = "cuda"

----------------------------------------------------------------------------
(* Properties of the vector builders, seen in the descriptor that         *)
(* astra_projection_geometry returns.                                     *)

\* A call that returned a vector-based descriptor of the given type.
Built(type) ==
    /\ OnProjection
    /\ ncalls > 0
    /\ retval.ok
    /\ retval.value.type = type

\* x is a component of some geometric query at the given angle, as it is,
\* negated, or scaled by one of the detector cell sizes.
FromAngle(x, angle, px_sizes) ==
    \E q \in 1..5, k \in 1..3, c \in {1, 0 - 1} \cup {px_sizes[i] : i \in DOMAIN px_sizes} :
        x = c * Component(q, angle, k)

\* One row per angle, in the order of the angle sequence, each of the width.
RowPerAngle(width) ==
    LET vec == retval.value.Vectors
        angles == args.geometry.angles
    IN  /\ Len(vec) = Len(angles)
        /\ \A i \in 1..Len(vec) :
              /\ Len(vec[i]) = width
              /\ \A j \in 1..width :
                    FromAngle(vec[i][j], angles[i], args.geometry.det_partition.cell_sides)

\* C12: for a geometry with n angles each of the fan, cone and parallel-3D
\* builders returns n rows, of width 6 for the fan and 12 for the other two,
\* and every component of row i is computed at the i-th angle of the angle
\* sequence in its given order; the column permutation moves no row.
C12_RowPerAngle ==
    /\ Built("fanflat_vec") => RowPerAngle(6)
    /\ Built("cone_vec") => RowPerAngle(12)
    /\ Built("parallel3d_vec") => RowPerAngle(12)

C12_Witness ==
    /\ Built("parallel3d_vec")
    /\ args.geometry.angles = <<1, 0>>
    /\ Len(retval.value.Vectors) = 2
    /\ Len(retval.value.Vectors[1]) = 12
    /\ retval.value.Vectors[1][1] = 0 - Component(5, 1, 3)
    /\ retval.value.Vectors[2][1] = 0 - Component(5, 0, 3)

\* The row [pZ, pY, pX, dZ, dY, dX, uZ, uY, uX, vZ, vY, vX] at an angle: d
\* the detector point at the detector midpoint, u and v the detector axes
\* scaled by the first and the second cell size, p the source position
\* (cone) or the negated detector-to-source vector (parallel 3D).
RowZYX(geometry, angle, cone) ==
    LET p == IF cone THEN src_position(geometry, angle)
             ELSE [k \in 1..3 |-> 0 - det_to_src(geometry, angle,
                                                 geometry.det_params_mid_pt)[k]]
        d == det_point_position(geometry, angle, geometry.det_params_mid_pt)
        u == det_axes(geometry, angle)[1]
        v == det_axes(geometry, angle)[2]
        c == geometry.det_partition.cell_sides
    IN  <<p[3], p[2], p[1], d[3], d[2], d[1],
          u[3] * c[1], u[2] * c[1], u[1] * c[1],
          v[3] * c[2], v[2] * c[2], v[1] * c[2]>>

LayoutZYX(cone) ==
    \A i \in 1..Len(args.geometry.angles) :
        retval.value.Vectors[i] = RowZYX(args.geometry, args.geometry.angles[i], cone)

\* C13: every row of the cone and of the parallel-3D builder is
\* [pZ, pY, pX, dZ, dY, dX, uZ, uY, uX, vZ, vY, vX], each of the four
\* triples reversed by the same index map, with d the detector point at the
\* detector midpoint, u and v the two detector axes scaled by the first and
\* the second detector cell size, and p the source position for the cone
\* and the negated detector-to-source vector for parallel 3D.
C13_LayoutZYX ==
    /\ Built("cone_vec") => LayoutZYX(TRUE)
    /\ Built("parallel3d_vec") => LayoutZYX(FALSE)

C13_Witness ==
    /\ Built("cone_vec")
    /\ args.geometry.angles = <<0, 1>>
    /\ args.geometry.det_partition.cell_sides = <<1, 2>>
    /\ retval.value.Vectors[2] =
          <<113, 112, 111, 213, 212, 211, 313, 312, 311, 826, 824, 822>>

----------------------------------------------------------------------------
(* Properties of astra_data. *)

DataCalled == OnData /\ ncalls > 0

\* The backend functions the latest call called.
BackendCalls == {calls[i].fn : i \in 1..Len(calls)}

\* C14: the 2D or 3D data module is chosen from the dimension of data when
\* data is given, whatever the ndim argument, and from ndim when it is not,
\* in which case a zero-filled backend buffer is created and nothing is
\* linked; a dimension outside {2, 3} or a kind outside {volume, projection}
\* fails with no backend call; data that is neither a DiscreteLpElement nor
\* an ndarray fails with InvalidDataType.
C14_DataModule ==
    DataCalled
    => LET supplied == args.data # None
           dim == IF supplied THEN args.data[1].ndim ELSE args.ndim
           module == IF dim = 2 THEN "data2d" ELSE "data3d"
       IN  IF supplied /\ args.data[1].cls \notin {"DiscreteLpElement", "ndarray"}
           THEN /\ ~retval.ok
                /\ retval.kind = "InvalidDataType"
                /\ NothingCreated
           ELSE IF dim \notin {2, 3} \/ args.datatype \notin {"volume", "projection"}
           THEN /\ ~retval.ok
                /\ NothingCreated
           ELSE IF ~supplied
           THEN /\ retval.ok
                /\ BackendCalls = {"astra." \o module \o ".create"}
                /\ astra_objects[retval.value].module = module
                /\ \A id \in 1..Len(astra_objects) : astra_objects[id].buf = None
           ELSE /\ BackendCalls \subseteq {"astra." \o module \o ".link"}
                /\ retval.ok
                     => /\ BackendCalls # {}
                        /\ astra_objects[retval.value].module = module
                        /\ astra_objects[retval.value].buf # None

C14_Witness ==
    /\ DataCalled
    /\ args.data # None
    /\ args.data[1].ndim = 3
    /\ args.ndim = 2
    /\ retval.ok
    /\ BackendCalls = {"astra.data3d.link"}
    /\ astra_objects[retval.value].module = "data3d"

\* The detected release is 1.8 or later.
AtLeast_1_8 ==
    ASTRA_VERSION[1] > 1 \/ (ASTRA_VERSION[1] = 1 /\ ASTRA_VERSION[2] >= 8)

\* C15: the options of the projector configuration hold DensityWeighting,
\* set to true, exactly when the descriptor's type is cone or cone_vec and
\* the detected release supports 'cone3d_hacky_density_weighting' (1.8 or
\* later); for every other type, the 2D fan included, and for every earlier
\* release the options are empty.
C15_DensityWeighting ==
    (OnProjector /\ ncalls > 0 /\ retval.ok)
    => IF args.astra_proj_geom["type"] \in {"cone", "cone_vec"} /\ AtLeast_1_8
       THEN /\ DOMAIN ProjectorCfg["options"] = {"DensityWeighting"}
            /\ ProjectorCfg["options"]["DensityWeighting"] = TRUE
       ELSE ProjectorCfg["options"] = EmptyDict

C15_Witness ==
    /\ OnProjector
    /\ ncalls > 0
    /\ retval.ok
    /\ args.astra_proj_geom["type"] = "cone_vec"
    /\ ASTRA_VERSION = <<1, 8, 0>>
    /\ ProjectorCfg["options"] = [DensityWeighting |-> TRUE]

\* A call of astra_projector that passes every test of the function: valid
\* interpolation and target, a recognized type, not 3D on the cpu.
ProjectorAccepted ==
    /\ ProjectorCalled
    /\ "type" \in DOMAIN args.astra_proj_geom
    /\ args.astra_proj_geom["type"] \in ProjTypes
    /\ ~(args.ndim = 3 /\ Lower(args.impl) = "cpu")

\* C17: the backend module is chosen from ndim alone, which is tested
\* neither against the descriptor's category nor against {2, 3}: with ndim 2
\* astra.projector.create is called, with any other ndim that passes the
\* 3D-cpu test astra.projector3d.create, whatever the type of the
\* descriptor, and the handle of the created projector is returned.
C17_ModuleFromDim ==
    ProjectorAccepted
    => LET module == IF args.ndim = 2 THEN "projector" ELSE "projector3d"
       IN  /\ retval.ok
           /\ BackendCalls = {"astra." \o module \o ".create"}
           /\ astra_objects[retval.value].kind = "projector"
           /\ astra_objects[retval.value].module = module
           /\ ProjectorCfg["ProjectionGeometry"] = args.astra_proj_geom

\* A cone descriptor with ndim 2 on cuda: the 3D tag through the 2D module.
C17_Witness ==
    /\ ProjectorAccepted
    /\ args.astra_proj_geom["type"] = "cone"
    /\ args.ndim = 2
    /\ args.impl = "cuda"
    /\ retval.ok
    /\ astra_objects[retval.value].module = "projector"
    /\ ProjectorCfg["type"] = "cuda3d"

----------------------------------------------------------------------------
(* Properties of two concurrent calls of astra_projection_geometry. *)

\* What one call alone does on the geometry, from the empty cache.
Sequential == astra_projection_geometry(args.geometry, EmptyDict)

AllDone == \A t \in Callers : threads[t].pc = "done"

\* Both calls have returned a descriptor equal in value to the one a call
\* alone returns, the cache has the one entry 'astra', equal in value too,
\* and no thread has computed more than a call alone computes.
RaceValueEqual ==
    (AllDone /\ Sequential.result.ok)
    => /\ \A t \in Callers :
             /\ threads[t].result.ok
             /\ threads[t].result.value.dict = Sequential.result.value
       /\ DOMAIN implementation_cache = {"astra"}
       /\ implementation_cache["astra"].dict = Sequential.result.value
       /\ Len(calls) <= Cardinality(Callers) * Len(Sequential.calls)

\* The step is thread t's store.
Stores(t) == threads[t].pc = "store" /\ threads'[t].pc = "return"

\* C16, as stated: under every interleaving of two calls on one geometry
\* with an empty cache, both calls return a descriptor equal in value to the
\* one a call alone returns, the cache ends with exactly the entry 'astra',
\* that entry is the descriptor of the first thread to store and no later
\* store replaces it, and the only extra cost is the computation done twice.
C16_FirstStoreKept ==
    [][/\ RaceValueEqual'
       /\ "astra" \in DOMAIN implementation_cache
            => implementation_cache' = implementation_cache]_vars

\* C16, amended: both calls return a descriptor equal in value to the one a
\* call alone returns, the cache ends with exactly the entry 'astra', equal
\* in value too, and the only extra cost is the computation done twice; the
\* cache changes only by a store, every store puts the storing thread's own
\* descriptor there, replacing the one an earlier store left, so the entry
\* is the descriptor of the last thread to store; a thread that finds the
\* entry at the shortcut returns that very object and computes nothing.
C16_LastStoreKept ==
    [][/\ RaceValueEqual'
       /\ \A t \in Callers :
             /\ Stores(t)
                  => implementation_cache' = [astra |-> threads[t].proj_geom[1]]
             /\ (/\ threads[t].pc = "enter"
                 /\ threads'[t].pc # "enter"
                 /\ "astra" \in DOMAIN implementation_cache)
                  => /\ threads'[t].result = Return(implementation_cache["astra"])
                     /\ calls' = calls
       /\ implementation_cache' # implementation_cache
            => \E t \in Callers : Stores(t)]_vars

\* Both threads found the cache empty at the test; the first has stored its
\* descriptor and returned it, the second is about to store its own.
C16_Witness ==
    /\ DOMAIN threads = Callers
    /\ threads[1].pc = "done"
    /\ threads[1].result.ok
    /\ threads[1].result.value.id = 1
    /\ implementation_cache = [astra |-> threads[1].result.value]
    /\ threads[2].pc = "store"
    /\ threads[2].proj_geom[1].id = 2
    /\ threads[2].proj_geom[1].dict.type = "fanflat_vec"
====
